---- MODULE Spec2Model ----
(***************************************************************************)
(* A model of lib/model.py: the shape arithmetic of the network modules    *)
(* (SamePad2d, ResNet, FPN, RPN, Mask), the loss composition and the       *)
(* training loops.  A tensor is modelled by its shape <<N, C, H, W>>       *)
(* (size()[0..3] of the source are positions 1..4 here); an operation that *)
(* raises yields Err.                                                      *)
(***************************************************************************)
EXTENDS Integers, Sequences, FiniteSets, TLC

VARIABLES
    \* SamePad2d followed by an unpadded pooling / convolution
    sp_input, sp_kernel_size, sp_stride, sp_padded, sp_output, sp_pc,
    \* the ResNet object (self.*), None / not yet assigned attributes included
    architecture, stage5, inplanes, layers, C1, C2, C3, C4, C5,
    \* the FPN object built on the ResNet's stages
    fpn,
    \* one forward call of ResNet or FPN: its locals and its position
    call, input, x, c2_out, c3_out, c4_out,
    p5_out, p4_out, p3_out, p2_out, p6_out, result, stages_run, pc, raised_at,
    \* the RPN object and one call of RPN.forward
    anchors_per_location, anchor_stride, depth, rpn_input, rpn_x,
    rpn_class_logits, rpn_probs, rpn_bbox, rpn_result, rpn_pc,
    \* one call of compute_loss: its arguments, the calls it has made, its
    \* locals and what it returned
    target_rpn_match, target_rpn_bbox, inputs, loss_calls,
    rpn_class_loss, rpn_bbox_loss, mrcnn_class_loss, mrcnn_bbox_loss,
    mrcnn_mask_loss, loss_returned, loss_pc,
    \* the Mask head and one call of Mask.forward
    pool_size, num_classes, mask_depth, mask_x, mask_trace, mask_out, mask_pc,
    \* one call of train_epoch or train_epoch_new: which one, its arguments
    \* and configuration, its locals, and the objects it acts on (the
    \* generator, the gradients, the parameters, the saved checkpoints)
    tr_loop, gen_len, BATCH_SIZE, SAVE_TIME_WITHIN_EPOCH, steps, start_iter,
    batch_count, loss_sum, step, iter_ind, iter_per_epoch, save_iter_base,
    loss, consumed, grad, params, checkpoints, tr_returned, tr_pc,
    \* history: the events of the run and the losses of the batches processed
    events, losses,
    \* one call of test_model: the dataset and configuration, its arguments
    \* (image_ids as passed is kept in arg_image_ids), its locals, the
    \* batches handed to the network so far, and where it is or was raised
    dataset, config, limit, arg_image_ids, image_ids, num_test_im,
    coco_image_ids, results, total_iter, cnt, test_iter_ind, curr_image_ids,
    images, image_i, network_calls, test_pc, test_raised

padVars == <<sp_input, sp_kernel_size, sp_stride, sp_padded, sp_output, sp_pc>>

resnetVars == <<architecture, stage5, inplanes, layers, C1, C2, C3, C4, C5>>

forwardVars == <<call, input, x, c2_out, c3_out, c4_out,
                 p5_out, p4_out, p3_out, p2_out, p6_out, result, stages_run>>

netVars == <<resnetVars, fpn, forwardVars, pc, raised_at>>

rpnVars == <<anchors_per_location, anchor_stride, depth, rpn_input, rpn_x,
             rpn_class_logits, rpn_probs, rpn_bbox, rpn_result, rpn_pc>>

lossVars == <<target_rpn_match, target_rpn_bbox, inputs, loss_calls,
              rpn_class_loss, rpn_bbox_loss, mrcnn_class_loss,
              mrcnn_bbox_loss, mrcnn_mask_loss, loss_returned, loss_pc>>

maskVars == <<pool_size, num_classes, mask_depth, mask_x, mask_trace,
              mask_out, mask_pc>>

trainArgs == <<tr_loop, gen_len, BATCH_SIZE, SAVE_TIME_WITHIN_EPOCH, steps,
               start_iter>>

trainLocals == <<batch_count, loss_sum, step, iter_ind, iter_per_epoch,
                 save_iter_base, loss>>

trainVars == <<trainArgs, trainLocals, consumed, grad, params, checkpoints,
               tr_returned, tr_pc, events, losses>>

testArgs == <<dataset, config, limit, arg_image_ids>>

testVars == <<testArgs, image_ids, num_test_im, coco_image_ids, results,
              total_iter, cnt, test_iter_ind, curr_image_ids, images, image_i,
              network_calls, test_pc, test_raised>>

vars == <<padVars, netVars, rpnVars, lossVars, maskVars, trainVars, testVars>>

\* what the actions of one part leave unchanged
notPad == <<netVars, rpnVars, lossVars, maskVars, trainVars, testVars>>
notNet == <<padVars, rpnVars, lossVars, maskVars, trainVars, testVars>>
notRpn == <<padVars, netVars, lossVars, maskVars, trainVars, testVars>>
notLoss == <<padVars, netVars, rpnVars, maskVars, trainVars, testVars>>
notMask == <<padVars, netVars, rpnVars, lossVars, trainVars, testVars>>
notTrain == <<padVars, netVars, rpnVars, lossVars, maskVars, testVars>>
notTest == <<padVars, netVars, rpnVars, lossVars, maskVars, trainVars>>

(***************************************************************************)
(* Bounds of the model.                                                    *)
(***************************************************************************)
MaxPadDim == 6
MaxKernel == 3
MaxDim == 36
MaxBatch == 2
MaxAnchors == 2
MaxFeat == 3
MaxLoss == 2
MaxPool == 3
MaxClasses == 3
MaxRois == 2
MaxLen == 3
MaxBatchSize == 2
MaxSteps == 3
MaxSaveTime == 2
MaxStartIter == 2
MaxImages == 3
MaxIdsLen == 2
MaxLimit == 2
MaxGpu == 2

(***************************************************************************)
(* Tensor shapes and the library layers the source calls.                  *)
(***************************************************************************)
Err == <<>>

\* math.ceil(float(a) / float(b)) for a >= 0, b >= 1
CeilDiv(a, b) == (a + b - 1) \div b

\* math.floor(a / 2); \div rounds towards minus infinity, as floor does
Floor2(a) == a \div 2

\* torch.nn.modules.utils._pair
Pair(k) == <<k, k>>

\* F.pad(input, (pad_left, pad_right, pad_top, pad_bottom), 'constant', 0):
\* left/right go to the last dimension, top/bottom to the one before it
FPad(t, pad_left, pad_right, pad_top, pad_bottom) ==
    LET h == t[3] + pad_top + pad_bottom
        w == t[4] + pad_left + pad_right
    IN  IF h < 1 \/ w < 1 THEN Err ELSE <<t[1], t[2], h, w>>

\* SamePad2d.forward: the padding computed from size()[2] is called
\* pad_along_width and the one from size()[3] pad_along_height
SamePad2dPads(t, kernel_size, stride) ==
    LET in_width   == t[3]
        in_height  == t[4]
        out_width  == CeilDiv(in_width, stride[1])
        out_height == CeilDiv(in_height, stride[2])
        pad_along_width  == (out_width - 1) * stride[1] + kernel_size[1] - in_width
        pad_along_height == (out_height - 1) * stride[2] + kernel_size[2] - in_height
        pad_left   == Floor2(pad_along_width)
        pad_top    == Floor2(pad_along_height)
        pad_right  == pad_along_width - pad_left
        pad_bottom == pad_along_height - pad_top
    IN  [pad_left |-> pad_left, pad_right |-> pad_right,
         pad_top |-> pad_top, pad_bottom |-> pad_bottom]

SamePad2d(t, kernel_size, stride) ==
    IF t = Err THEN Err
    ELSE LET p == SamePad2dPads(t, Pair(kernel_size), Pair(stride))
         IN  FPad(t, p.pad_left, p.pad_right, p.pad_top, p.pad_bottom)

\* nn.MaxPool2d(kernel_size, stride), no padding; raises when the window
\* does not fit
MaxPool2d(t, kernel_size, stride) ==
    IF t = Err THEN Err
    ELSE IF t[3] < kernel_size \/ t[4] < kernel_size THEN Err
    ELSE <<t[1], t[2], (t[3] - kernel_size) \div stride + 1,
                       (t[4] - kernel_size) \div stride + 1>>

\* nn.Conv2d(in_channels, out_channels, kernel_size, stride, padding);
\* raises on a channel mismatch or when the kernel does not fit
Conv2d(t, in_channels, out_channels, kernel_size, stride, padding) ==
    IF t = Err THEN Err
    ELSE IF t[2] # in_channels THEN Err
    ELSE IF t[3] + 2 * padding < kernel_size \/ t[4] + 2 * padding < kernel_size
         THEN Err
    ELSE <<t[1], out_channels,
           (t[3] + 2 * padding - kernel_size) \div stride + 1,
           (t[4] + 2 * padding - kernel_size) \div stride + 1>>

(***************************************************************************)
(* Each specification below runs one part of the program; the variables of *)
(* the other parts rest in their idle values.                              *)
(***************************************************************************)
\* an attribute that is not assigned yet, self.C5 = None, nn.Sequential(*layers)
Unset == [kind |-> "unset", blocks |-> <<>>]
None == [kind |-> "none", blocks |-> <<>>]
Sequential(blocks) == [kind |-> "sequential", blocks |-> blocks]

PadIdle ==
    /\ sp_input = Err /\ sp_kernel_size = 0 /\ sp_stride = 0
    /\ sp_padded = Err /\ sp_output = Err /\ sp_pc = "idle"

ForwardIdle ==
    /\ call = "none" /\ input = Err /\ x = Err
    /\ c2_out = Err /\ c3_out = Err /\ c4_out = Err
    /\ p5_out = Err /\ p4_out = Err /\ p3_out = Err /\ p2_out = Err
    /\ p6_out = Err /\ result = <<>> /\ stages_run = 0

NetIdle ==
    /\ architecture = "" /\ stage5 = FALSE /\ inplanes = 0 /\ layers = <<>>
    /\ C1 = Unset /\ C2 = Unset /\ C3 = Unset /\ C4 = Unset /\ C5 = Unset
    /\ fpn = [built |-> FALSE, out_channels |-> 0]
    /\ ForwardIdle
    /\ pc = "idle" /\ raised_at = "none"

\* a tensor whose elements matter: its shape and its elements in row-major
\* (contiguous) order; NoTensor is a local not assigned yet
NoTensor == [shape |-> <<>>, flat |-> <<>>]

RpnIdle ==
    /\ anchors_per_location = 0 /\ anchor_stride = 0 /\ depth = 0
    /\ rpn_input = Err /\ rpn_x = Err
    /\ rpn_class_logits = NoTensor /\ rpn_probs = NoTensor
    /\ rpn_bbox = NoTensor /\ rpn_result = <<>> /\ rpn_pc = "idle"

LossIdle ==
    /\ target_rpn_match = "" /\ target_rpn_bbox = "" /\ inputs = <<>>
    /\ loss_calls = <<>>
    /\ rpn_class_loss = -1 /\ rpn_bbox_loss = -1 /\ mrcnn_class_loss = -1
    /\ mrcnn_bbox_loss = -1 /\ mrcnn_mask_loss = -1
    /\ loss_returned = <<>> /\ loss_pc = "idle"

MaskIdle ==
    /\ pool_size = 0 /\ num_classes = 0 /\ mask_depth = 0
    /\ mask_x = Err /\ mask_trace = <<>> /\ mask_out = NoTensor
    /\ mask_pc = "idle"

TrainIdle ==
    /\ tr_loop = "none" /\ gen_len = 0 /\ BATCH_SIZE = 0
    /\ SAVE_TIME_WITHIN_EPOCH = 0 /\ steps = 0 /\ start_iter = 0
    /\ batch_count = 0 /\ loss_sum = <<0, 1>> /\ step = 0 /\ iter_ind = 0
    /\ iter_per_epoch = 0 /\ save_iter_base = 0 /\ loss = -1
    /\ consumed = 0 /\ grad = {} /\ params = <<>> /\ checkpoints = <<>>
    /\ tr_returned = <<>> /\ tr_pc = "idle" /\ events = <<>> /\ losses = <<>>

\* image_ids=None
NoIds == <<-1>>

TestIdle ==
    /\ dataset = [image_ids |-> <<>>, image_info |-> <<>>]
    /\ config = [BATCH_SIZE |-> 0, GPU_COUNT |-> 0]
    /\ limit = -1 /\ arg_image_ids = NoIds /\ image_ids = NoIds
    /\ num_test_im = 0 /\ coco_image_ids = <<>> /\ results = <<>>
    /\ total_iter = 0 /\ cnt = 0 /\ test_iter_ind = 0
    /\ curr_image_ids = <<>> /\ images = <<>> /\ image_i = 0
    /\ network_calls = <<>> /\ test_pc = "idle" /\ test_raised = "none"

(***************************************************************************)
(* SamePad2d(k, s) followed by an unpadded pooling or convolution with the *)
(* same kernel and stride, as in ResNet.C1, Bottleneck, RPN and Mask.      *)
(***************************************************************************)

PadInit ==
    /\ sp_input \in {<<1, 1, h, w>> : h \in 1..MaxPadDim, w \in 1..MaxPadDim}
    /\ sp_kernel_size \in 1..MaxKernel
    /\ sp_stride \in 1..MaxKernel
    /\ sp_padded = Err
    /\ sp_output = Err
    /\ sp_pc = "start"
    /\ NetIdle /\ RpnIdle /\ LossIdle /\ MaskIdle /\ TrainIdle
    /\ TestIdle

SamePad2dForward ==
    /\ sp_pc = "start"
    /\ sp_padded' = SamePad2d(sp_input, sp_kernel_size, sp_stride)
    /\ sp_pc' = IF sp_padded' = Err THEN "error" ELSE "padded"
    /\ UNCHANGED <<sp_input, sp_kernel_size, sp_stride, sp_output, notPad>>

PadThenPool ==
    /\ sp_pc = "padded"
    /\ sp_output' = MaxPool2d(sp_padded, sp_kernel_size, sp_stride)
    /\ sp_pc' = IF sp_output' = Err THEN "error" ELSE "done"
    /\ UNCHANGED <<sp_input, sp_kernel_size, sp_stride, sp_padded, notPad>>

PadThenConv ==
    /\ sp_pc = "padded"
    /\ sp_output' = Conv2d(sp_padded, 1, 1, sp_kernel_size, sp_stride, 0)
    /\ sp_pc' = IF sp_output' = Err THEN "error" ELSE "done"
    /\ UNCHANGED <<sp_input, sp_kernel_size, sp_stride, sp_padded, notPad>>

PadNext == SamePad2dForward \/ PadThenPool \/ PadThenConv

SpecPad == PadInit /\ [][PadNext]_vars

\* C2: with k >= s, SamePad2d(k, s) followed by an unpadded pooling or
\* convolution with kernel k and stride s completes for every input and
\* yields ceil(H/s) by ceil(W/s), the padding added along each dimension
\* being (ceil(in/s)-1)*s + k - in of that same dimension.
C2_SamePadding ==
    sp_kernel_size >= sp_stride =>
        /\ sp_pc # "error"
        /\ sp_pc \in {"padded", "done"} =>
              /\ sp_padded[3] - sp_input[3] =
                    (CeilDiv(sp_input[3], sp_stride) - 1) * sp_stride
                        + sp_kernel_size - sp_input[3]
              /\ sp_padded[4] - sp_input[4] =
                    (CeilDiv(sp_input[4], sp_stride) - 1) * sp_stride
                        + sp_kernel_size - sp_input[4]
        /\ sp_pc = "done" =>
              /\ sp_output[3] = CeilDiv(sp_input[3], sp_stride)
              /\ sp_output[4] = CeilDiv(sp_input[4], sp_stride)

(***************************************************************************)
(* Bottleneck, ResNet and FPN.                                             *)
(***************************************************************************)
\* Bottleneck.expansion
expansion == 4

NoDownsample == [kind |-> "none"]

\* nn.Sequential(nn.Conv2d(inplanes, planes * expansion, kernel_size=1,
\* stride=stride), nn.BatchNorm2d(...)) of make_layer
DownsampleConv(inpl, outpl, stride) ==
    [kind |-> "conv", inplanes |-> inpl, planes |-> outpl, stride |-> stride]

\* Bottleneck.__init__
Bottleneck(inpl, planes, stride, downsample) ==
    [inplanes |-> inpl, planes |-> planes, stride |-> stride,
     downsample |-> downsample]

\* `out += residual`: the residual must broadcast to the shape of out
InPlaceAdd(out, residual) ==
    IF out = Err \/ residual = Err THEN Err
    ELSE IF \A i \in 1..4 : residual[i] = out[i] \/ residual[i] = 1
         THEN out ELSE Err

\* a + b on tensors: shapes must be equal or broadcastable (a dimension of
\* size 1 is stretched to the other operand's size)
Add(a, b) ==
    IF a = Err \/ b = Err THEN Err
    ELSE IF \A i \in 1..4 : a[i] = b[i] \/ a[i] = 1 \/ b[i] = 1
         THEN [i \in 1..4 |-> IF a[i] = 1 THEN b[i] ELSE a[i]]
         ELSE Err

\* faulty variant: the coarser map is added without being upsampled
Upsample_Omitted(t, scale_factor) == t

\* F.upsample(t, scale_factor=2)
Upsample(t, scale_factor) ==
    IF t = Err THEN Err
    ELSE <<t[1], t[2], t[3] * scale_factor, t[4] * scale_factor>>

\* Bottleneck.forward
BottleneckForward(b, t) ==
    LET out1 == Conv2d(t, b.inplanes, b.planes, 1, b.stride, 0)
        out2 == Conv2d(SamePad2d(out1, 3, 1), b.planes, b.planes, 3, 1, 0)
        out3 == Conv2d(out2, b.planes, b.planes * 4, 1, 1, 0)
        residual == IF b.downsample.kind # "none"
                    THEN Conv2d(t, b.downsample.inplanes, b.downsample.planes,
                                1, b.downsample.stride, 0)
                    ELSE t
    IN  InPlaceAdd(out3, residual)

RECURSIVE SequentialForward(_, _)
SequentialForward(blocks, t) ==
    IF blocks = <<>> THEN t
    ELSE SequentialForward(Tail(blocks), BottleneckForward(Head(blocks), t))

\* ResNet.C1: Conv2d(3, 64, 7, stride=2, padding=3), BatchNorm, ReLU,
\* SamePad2d(3, 2), MaxPool2d(3, 2)
Stem == [kind |-> "stem", blocks |-> <<>>]

StemForward(t) ==
    MaxPool2d(SamePad2d(Conv2d(t, 3, 64, 7, 2, 3), 3, 2), 3, 2)

\* stage(x): calling None (or an attribute never assigned) raises
CallStage(stage, t) ==
    IF t = Err THEN Err
    ELSE IF stage.kind = "stem" THEN StemForward(t)
    ELSE IF stage.kind = "sequential" THEN SequentialForward(stage.blocks, t)
    ELSE Err

\* faulty variant: the projection shortcut is made for a stride only
make_layer_StrideOnly(inpl, planes, blocks, stride) ==
    LET downsample == IF stride # 1
                      THEN DownsampleConv(inpl, planes * expansion, stride)
                      ELSE NoDownsample
        first == Bottleneck(inpl, planes, stride, downsample)
        newinpl == planes * expansion
        rest == [i \in 1..(blocks - 1) |->
                    Bottleneck(newinpl, planes, 1, NoDownsample)]
    IN  [layer |-> Sequential(<<first>> \o rest), inplanes |-> newinpl]

\* ResNet.make_layer: the layer it returns and the self.inplanes it leaves
make_layer(inpl, planes, blocks, stride) ==
    LET downsample == IF stride # 1 \/ inpl # planes * expansion
                      THEN DownsampleConv(inpl, planes * expansion, stride)
                      ELSE NoDownsample
        first == Bottleneck(inpl, planes, stride, downsample)
        newinpl == planes * expansion
        rest == [i \in 1..(blocks - 1) |->
                    Bottleneck(newinpl, planes, 1, NoDownsample)]
    IN  [layer |-> Sequential(<<first>> \o rest), inplanes |-> newinpl]

\* faulty variant: the assertion is stripped
ArchitectureAccepted_Stripped(a) == TRUE

\* assert architecture in ["resnet50", "resnet101"]
ArchitectureAccepted(a) == a \in {"resnet50", "resnet101"}

\* {"resnet50": 6, "resnet101": 23}
Stage4Blocks == [resnet50 |-> 6, resnet101 |-> 23]

\* ResNet.stages
stages == <<C1, C2, C3, C4, C5>>

StageNames == <<"C1", "C2", "C3", "C4", "C5">>

Architectures == {"resnet50", "resnet101", "resnet18", "resnet152"}
OutChannels == {256}

NetInit ==
    /\ architecture \in Architectures
    /\ stage5 \in BOOLEAN
    /\ inplanes = 0 /\ layers = <<>>
    /\ C1 = Unset /\ C2 = Unset /\ C3 = Unset /\ C4 = Unset /\ C5 = Unset
    /\ fpn = [built |-> FALSE, out_channels |-> 0]
    /\ ForwardIdle
    /\ pc = "init_assert" /\ raised_at = "none"
    /\ PadIdle /\ RpnIdle /\ LossIdle /\ MaskIdle /\ TrainIdle
    /\ TestIdle

\* ---- ResNet.__init__ ----
ResNetAssert ==
    /\ pc = "init_assert"
    /\ IF ArchitectureAccepted(architecture)
       THEN pc' = "init_inplanes" /\ UNCHANGED raised_at
       ELSE pc' = "raised" /\ raised_at' = "assert"
    /\ UNCHANGED <<resnetVars, fpn, forwardVars, notNet>>

ResNetSetInplanes ==
    /\ pc = "init_inplanes"
    /\ inplanes' = 64
    /\ pc' = "init_layers"
    /\ UNCHANGED <<architecture, stage5, layers, C1, C2, C3, C4, C5,
                   fpn, forwardVars, raised_at, notNet>>

ResNetSetLayers ==
    /\ pc = "init_layers"
    /\ IF architecture \in DOMAIN Stage4Blocks
       THEN /\ layers' = <<3, 4, Stage4Blocks[architecture], 3>>
            /\ pc' = "init_C1" /\ UNCHANGED raised_at
       ELSE /\ pc' = "raised" /\ raised_at' = "layers"
            /\ UNCHANGED layers
    /\ UNCHANGED <<architecture, stage5, inplanes, C1, C2, C3, C4, C5,
                   fpn, forwardVars, notNet>>

ResNetBuildC1 ==
    /\ pc = "init_C1"
    /\ C1' = Stem
    /\ pc' = "init_C2"
    /\ UNCHANGED <<architecture, stage5, inplanes, layers, C2, C3, C4, C5,
                   fpn, forwardVars, raised_at, notNet>>

ResNetMakeC2 ==
    /\ pc = "init_C2"
    /\ LET r == make_layer(inplanes, 64, layers[1], 1)
       IN  C2' = r.layer /\ inplanes' = r.inplanes
    /\ pc' = "init_C3"
    /\ UNCHANGED <<architecture, stage5, layers, C1, C3, C4, C5,
                   fpn, forwardVars, raised_at, notNet>>

ResNetMakeC3 ==
    /\ pc = "init_C3"
    /\ LET r == make_layer(inplanes, 128, layers[2], 2)
       IN  C3' = r.layer /\ inplanes' = r.inplanes
    /\ pc' = "init_C4"
    /\ UNCHANGED <<architecture, stage5, layers, C1, C2, C4, C5,
                   fpn, forwardVars, raised_at, notNet>>

ResNetMakeC4 ==
    /\ pc = "init_C4"
    /\ LET r == make_layer(inplanes, 256, layers[3], 2)
       IN  C4' = r.layer /\ inplanes' = r.inplanes
    /\ pc' = "init_C5"
    /\ UNCHANGED <<architecture, stage5, layers, C1, C2, C3, C5,
                   fpn, forwardVars, raised_at, notNet>>

ResNetMakeC5 ==
    /\ pc = "init_C5"
    /\ IF stage5
       THEN LET r == make_layer(inplanes, 512, layers[4], 2)
            IN  C5' = r.layer /\ inplanes' = r.inplanes
       ELSE C5' = None /\ UNCHANGED inplanes
    /\ pc' = "built"
    /\ UNCHANGED <<architecture, stage5, layers, C1, C2, C3, C4,
                   fpn, forwardVars, raised_at, notNet>>

\* ---- ResNet.forward ----
ResNetForwardCall ==
    /\ pc = "built" /\ call = "none"
    /\ \E h \in 1..MaxDim, w \in 1..MaxDim :
          /\ input' = <<1, 3, h, w>>
          /\ x' = <<1, 3, h, w>>
    /\ call' = "resnet"
    /\ pc' = "rf_stage"
    /\ UNCHANGED <<resnetVars, fpn, c2_out, c3_out, c4_out, p5_out, p4_out,
                   p3_out, p2_out, p6_out, result, stages_run, raised_at,
                   notNet>>

\* x = self.C1(x) ... x = self.C5(x), one stage per step
ResNetForwardStage ==
    /\ pc = "rf_stage"
    /\ LET i == stages_run + 1
           y == CallStage(stages[i], x)
       IN  IF y = Err
           THEN /\ pc' = "raised" /\ raised_at' = StageNames[i]
                /\ UNCHANGED <<x, stages_run>>
           ELSE /\ x' = y /\ stages_run' = i
                /\ pc' = IF i = 5 THEN "rf_return" ELSE "rf_stage"
                /\ UNCHANGED raised_at
    /\ UNCHANGED <<resnetVars, fpn, call, input, c2_out, c3_out, c4_out,
                   p5_out, p4_out, p3_out, p2_out, p6_out, result, notNet>>

ResNetForwardReturn ==
    /\ pc = "rf_return"
    /\ result' = <<x>>
    /\ pc' = "returned"
    /\ UNCHANGED <<resnetVars, fpn, call, input, x, c2_out, c3_out, c4_out,
                   p5_out, p4_out, p3_out, p2_out, p6_out, stages_run,
                   raised_at, notNet>>

\* ---- FPN.__init__ on the stages of the ResNet ----
FPNInit ==
    /\ pc = "built" /\ call = "none" /\ ~fpn.built
    /\ \E oc \in OutChannels : fpn' = [built |-> TRUE, out_channels |-> oc]
    /\ UNCHANGED <<resnetVars, forwardVars, pc, raised_at, notNet>>

\* ---- FPN.forward ----
FPNForwardCall ==
    /\ pc = "built" /\ call = "none" /\ fpn.built
    /\ \E h \in 1..MaxDim, w \in 1..MaxDim :
          /\ input' = <<1, 3, h, w>>
          /\ x' = <<1, 3, h, w>>
    /\ call' = "fpn"
    /\ pc' = "ff_stage"
    /\ UNCHANGED <<resnetVars, fpn, c2_out, c3_out, c4_out, p5_out, p4_out,
                   p3_out, p2_out, p6_out, result, stages_run, raised_at,
                   notNet>>

\* x = self.C1(x) ... x = self.C5(x), keeping c2_out, c3_out, c4_out
FPNForwardStage ==
    /\ pc = "ff_stage"
    /\ LET i == stages_run + 1
           y == CallStage(stages[i], x)
       IN  IF y = Err
           THEN /\ pc' = "raised" /\ raised_at' = StageNames[i]
                /\ UNCHANGED <<x, stages_run, c2_out, c3_out, c4_out>>
           ELSE /\ x' = y /\ stages_run' = i
                /\ c2_out' = IF i = 2 THEN y ELSE c2_out
                /\ c3_out' = IF i = 3 THEN y ELSE c3_out
                /\ c4_out' = IF i = 4 THEN y ELSE c4_out
                /\ pc' = IF i = 5 THEN "ff_P5" ELSE "ff_stage"
                /\ UNCHANGED raised_at
    /\ UNCHANGED <<resnetVars, fpn, call, input, p5_out, p4_out, p3_out,
                   p2_out, p6_out, result, notNet>>

\* the lateral 1x1 convolution of a level added to the upsampled coarser map
Lateral(c_out, in_channels, coarser) ==
    Add(Conv2d(c_out, in_channels, fpn.out_channels, 1, 1, 0),
        Upsample(coarser, 2))

\* p5_out = self.P5_conv1(x)
FPNLateralP5 ==
    /\ pc = "ff_P5"
    /\ LET y == Conv2d(x, 2048, fpn.out_channels, 1, 1, 0)
       IN  IF y = Err
           THEN pc' = "raised" /\ raised_at' = "P5" /\ UNCHANGED p5_out
           ELSE pc' = "ff_P4" /\ p5_out' = y /\ UNCHANGED raised_at
    /\ UNCHANGED <<resnetVars, fpn, call, input, x, c2_out, c3_out, c4_out,
                   p4_out, p3_out, p2_out, p6_out, result, stages_run,
                   notNet>>

FPNTopDownP4 ==
    /\ pc = "ff_P4"
    /\ LET y == Lateral(c4_out, 1024, p5_out)
       IN  IF y = Err
           THEN pc' = "raised" /\ raised_at' = "P4" /\ UNCHANGED p4_out
           ELSE pc' = "ff_P3" /\ p4_out' = y /\ UNCHANGED raised_at
    /\ UNCHANGED <<resnetVars, fpn, call, input, x, c2_out, c3_out, c4_out,
                   p5_out, p3_out, p2_out, p6_out, result, stages_run,
                   notNet>>

FPNTopDownP3 ==
    /\ pc = "ff_P3"
    /\ LET y == Lateral(c3_out, 512, p4_out)
       IN  IF y = Err
           THEN pc' = "raised" /\ raised_at' = "P3" /\ UNCHANGED p3_out
           ELSE pc' = "ff_P2" /\ p3_out' = y /\ UNCHANGED raised_at
    /\ UNCHANGED <<resnetVars, fpn, call, input, x, c2_out, c3_out, c4_out,
                   p5_out, p4_out, p2_out, p6_out, result, stages_run,
                   notNet>>

FPNTopDownP2 ==
    /\ pc = "ff_P2"
    /\ LET y == Lateral(c2_out, 256, p3_out)
       IN  IF y = Err
           THEN pc' = "raised" /\ raised_at' = "P2" /\ UNCHANGED p2_out
           ELSE pc' = "ff_smooth" /\ p2_out' = y /\ UNCHANGED raised_at
    /\ UNCHANGED <<resnetVars, fpn, call, input, x, c2_out, c3_out, c4_out,
                   p5_out, p4_out, p3_out, p6_out, result, stages_run,
                   notNet>>

\* P*_conv2: SamePad2d(3, 1) then Conv2d(out_channels, out_channels, 3, 1)
Smooth(t) ==
    Conv2d(SamePad2d(t, 3, 1), fpn.out_channels, fpn.out_channels, 3, 1, 0)

FPNSmooth ==
    /\ pc = "ff_smooth"
    /\ p5_out' = Smooth(p5_out)
    /\ p4_out' = Smooth(p4_out)
    /\ p3_out' = Smooth(p3_out)
    /\ p2_out' = Smooth(p2_out)
    /\ IF Err \in {p5_out', p4_out', p3_out', p2_out'}
       THEN pc' = "raised" /\ raised_at' = "smooth"
       ELSE pc' = "ff_P6" /\ UNCHANGED raised_at
    /\ UNCHANGED <<resnetVars, fpn, call, input, x, c2_out, c3_out, c4_out,
                   p6_out, result, stages_run, notNet>>

\* p6_out = self.P6(p5_out); return [p2_out, p3_out, p4_out, p5_out, p6_out]
FPNP6Return ==
    /\ pc = "ff_P6"
    /\ LET y == MaxPool2d(p5_out, 1, 2)
       IN  IF y = Err
           THEN /\ pc' = "raised" /\ raised_at' = "P6"
                /\ UNCHANGED <<p6_out, result>>
           ELSE /\ p6_out' = y
                /\ result' = <<p2_out, p3_out, p4_out, p5_out, y>>
                /\ pc' = "returned" /\ UNCHANGED raised_at
    /\ UNCHANGED <<resnetVars, fpn, call, input, x, c2_out, c3_out, c4_out,
                   p5_out, p4_out, p3_out, p2_out, stages_run, notNet>>

NetNext ==
    \/ ResNetAssert \/ ResNetSetInplanes \/ ResNetSetLayers \/ ResNetBuildC1
    \/ ResNetMakeC2 \/ ResNetMakeC3 \/ ResNetMakeC4 \/ ResNetMakeC5
    \/ ResNetForwardCall \/ ResNetForwardStage \/ ResNetForwardReturn
    \/ FPNInit \/ FPNForwardCall \/ FPNForwardStage \/ FPNLateralP5
    \/ FPNTopDownP4 \/ FPNTopDownP3 \/ FPNTopDownP2 \/ FPNSmooth
    \/ FPNP6Return

SpecNet == NetInit /\ [][NetNext]_vars

(***************************************************************************)
(* Claims about ResNet and FPN, checked under SpecNet.                     *)
(***************************************************************************)
PyramidStrides == <<4, 8, 16, 32, 64>>

\* the lateral map c is twice the coarser pyramid map p in both dimensions
TwiceOf(c, p) == c[3] = 2 * p[3] /\ c[4] = 2 * p[4]

LateralsAligned ==
    /\ TwiceOf(c4_out, p5_out)
    /\ TwiceOf(c3_out, p4_out)
    /\ TwiceOf(c2_out, p3_out)

\* C1: whenever FPN.forward completes on an input whose lateral maps are
\* each exactly twice the next-coarser pyramid map, it returns the five
\* maps [P2, P3, P4, P5, P6] and the height and width of each equal
\* ceil(input / stride) for the strides 4, 8, 16, 32, 64.
C1_PyramidSizes ==
    (call = "fpn" /\ pc = "returned" /\ LateralsAligned) =>
        /\ Len(result) = 5
        /\ result = <<p2_out, p3_out, p4_out, p5_out, p6_out>>
        /\ \A i \in 1..5 :
              /\ result[i][3] = CeilDiv(input[3], PyramidStrides[i])
              /\ result[i][4] = CeilDiv(input[4], PyramidStrides[i])

Recognized == {"resnet50", "resnet101"}

Constructed == C5 # Unset

\* C6: an architecture other than "resnet50" / "resnet101" fails at the
\* assertion, before self.inplanes is set or any stage is built; a
\* recognized one is constructed with block counts [3, 4, 6, 3] or
\* [3, 4, 23, 3].
C6_ArchitectureAssert ==
    /\ architecture \notin Recognized =>
          /\ pc \in {"init_assert", "raised"}
          /\ pc = "raised" => raised_at = "assert"
          /\ inplanes = 0 /\ layers = <<>>
          /\ \A i \in 1..5 : stages[i] = Unset
    /\ architecture \in Recognized =>
          /\ ~(pc = "raised" /\ raised_at \in {"assert", "layers"})
          /\ Constructed =>
                /\ layers = <<3, 4, IF architecture = "resnet50" THEN 6 ELSE 23, 3>>
                /\ Len(C2.blocks) = 3 /\ Len(C3.blocks) = 4
                /\ Len(C4.blocks) = IF architecture = "resnet50" THEN 6 ELSE 23
                /\ stage5 => Len(C5.blocks) = 3

C6_Witness ==
    architecture = "resnet18" /\ pc = "raised" /\ raised_at = "assert"

\* C7 as stated: a misaligned input size is rejected at construction, so no
\* forward pass that has evaluated backbone stages ever fails at a lateral
\* addition.
C7_RejectedAtConstruction ==
    ~(call = "fpn" /\ stages_run > 0 /\ pc = "raised"
        /\ raised_at \in {"P4", "P3", "P2"})

\* the lateral map c can be added to the upsampled p: in each spatial
\* dimension it is twice p, or of size 1 (which broadcasts)
Compatible(c, p) ==
    /\ c[3] = 2 * p[3] \/ c[3] = 1
    /\ c[4] = 2 * p[4] \/ c[4] = 1

\* C7 amended: construction takes no input size; a misaligned input is
\* fatal inside FPN.forward, at the first lateral addition whose lateral
\* map is in some dimension neither twice the next-coarser pyramid map nor
\* of size 1, after all five backbone stages have been evaluated and before
\* anything is returned; a forward pass that gets past a lateral addition
\* found it compatible.
C7_MismatchRaisedInForward ==
    call = "fpn" =>
        /\ Constructed /\ fpn.built
        /\ (pc = "raised" /\ raised_at \in {"P4", "P3", "P2"}) =>
              /\ stages_run = 5 /\ result = <<>> /\ p6_out = Err
        /\ (pc = "raised" /\ raised_at = "P4") => ~Compatible(c4_out, p5_out)
        /\ (pc = "raised" /\ raised_at = "P3") =>
              Compatible(c4_out, p5_out) /\ ~Compatible(c3_out, p4_out)
        /\ (pc = "raised" /\ raised_at = "P2") =>
              /\ Compatible(c4_out, p5_out) /\ Compatible(c3_out, p4_out)
              /\ ~Compatible(c2_out, p3_out)
        /\ pc \in {"ff_smooth", "ff_P6", "returned"} =>
              /\ Compatible(c4_out, p5_out) /\ Compatible(c3_out, p4_out)
              /\ Compatible(c2_out, p3_out)

C7_Witness ==
    /\ call = "fpn" /\ pc = "raised" /\ raised_at = "P3" /\ stages_run = 5
    /\ c3_out[3] # 2 * p4_out[3]

\* C8: a ResNet built with stage5=False is usable: every element of
\* stages() is a callable stage, forward completes and returns the
\* stage-4 map; with stage5=True forward returns the C5 map at 1/32
\* resolution.
C8_Stage5Optional ==
    /\ Constructed =>
          \A i \in 1..5 : stages[i].kind \in {"stem", "sequential"}
    /\ (call = "resnet" /\ ~stage5) =>
          /\ ~(pc = "raised" /\ raised_at = "C5")
          /\ pc = "returned" =>
                result = <<x>> /\ x[2] = 1024 /\ stages_run = 4
    /\ (call = "resnet" /\ stage5 /\ pc = "returned") =>
          /\ result[1][2] = 2048
          /\ result[1][3] = CeilDiv(input[3], 32)
          /\ result[1][4] = CeilDiv(input[4], 32)

(***************************************************************************)
(* RPN.  The outputs of conv_class and conv_bbox are tensors of labelled   *)
(* elements <<name, b, c, h, w>>, indices counted from 0 as in the source, *)
(* so that permute / contiguous / view are modelled by what they do to the *)
(* order of the elements.                                                  *)
(***************************************************************************)
RECURSIVE Numel(_)
Numel(shape) ==
    IF shape = <<>> THEN 1 ELSE Head(shape) * Numel(Tail(shape))

\* row-major offset of the index idx in a contiguous tensor of that shape
RECURSIVE Offset(_, _)
Offset(shape, idx) ==
    IF shape = <<>> THEN 0
    ELSE Head(idx) * Numel(Tail(shape)) + Offset(Tail(shape), Tail(idx))

\* the index at row-major offset o
RECURSIVE Unravel(_, _)
Unravel(shape, o) ==
    IF shape = <<>> THEN <<>>
    ELSE LET m == Numel(Tail(shape))
         IN  <<o \div m>> \o Unravel(Tail(shape), o % m)

At(t, idx) == t.flat[Offset(t.shape, idx) + 1]

\* the output of a convolution: element (b, c, h, w) is labelled by its place
ConvOutput(name, shape) ==
    [shape |-> shape,
     flat |-> [o \in 1..Numel(shape) |-> <<name>> \o Unravel(shape, o - 1)]]

\* t.permute(*dims).contiguous(): dimension k of the result is dimension
\* dims[k] of t, and the elements are laid out row-major in the new shape
PermuteContiguous(t, dims) ==
    LET r == Len(dims)
        newshape == [k \in 1..r |-> t.shape[dims[k] + 1]]
        OldIdx(j) == [d \in 1..r |-> j[CHOOSE k \in 1..r : dims[k] + 1 = d]]
    IN  [shape |-> newshape,
         flat |-> [o \in 1..Numel(newshape) |->
                      At(t, OldIdx(Unravel(newshape, o - 1)))]]

\* t.view(n, -1, last): the elements keep their order, -1 is inferred
View(t, n, last) ==
    LET total == Numel(t.shape)
    IN  IF total % (n * last) # 0 THEN NoTensor
        ELSE [shape |-> <<n, total \div (n * last), last>>, flat |-> t.flat]

\* nn.Softmax(dim): every element is normalised over the elements that
\* differ from it in dimension dim only
Softmax(t, dim) ==
    [shape |-> t.shape,
     flat |-> [o \in 1..Numel(t.shape) |->
        LET idx == Unravel(t.shape, o - 1)
        IN  [of |-> t.flat[o],
             over |-> {At(t, [idx EXCEPT ![dim + 1] = v]) :
                          v \in 0..(t.shape[dim + 1] - 1)}]]]

\* faulty variant: the box deltas are viewed without moving the channels last
BboxPermutation_None == <<0, 1, 2, 3>>

\* permute(0, 2, 3, 1) of lines 585 and 597
ClassPermutation == <<0, 2, 3, 1>>
BboxPermutation == <<0, 2, 3, 1>>

\* nn.Softmax(dim=2)
SoftmaxDim == 2

RpnInit ==
    /\ anchors_per_location \in 1..MaxAnchors
    /\ anchor_stride \in {1, 2}
    /\ depth = 256
    /\ rpn_input \in {<<b, 256, h, w>> :
                        b \in 1..MaxBatch, h \in 1..MaxFeat, w \in 1..MaxFeat}
    /\ rpn_x = Err
    /\ rpn_class_logits = NoTensor /\ rpn_probs = NoTensor
    /\ rpn_bbox = NoTensor /\ rpn_result = <<>>
    /\ rpn_pc = "shared"
    /\ PadIdle /\ NetIdle /\ LossIdle /\ MaskIdle /\ TrainIdle
    /\ TestIdle

\* x = self.relu(self.conv_shared(self.padding(x)))
RPNShared ==
    /\ rpn_pc = "shared"
    /\ rpn_x' = Conv2d(SamePad2d(rpn_input, 3, anchor_stride),
                       depth, 512, 3, anchor_stride, 0)
    /\ rpn_pc' = IF rpn_x' = Err THEN "raised" ELSE "class_conv"
    /\ UNCHANGED <<anchors_per_location, anchor_stride, depth, rpn_input,
                   rpn_class_logits, rpn_probs, rpn_bbox, rpn_result, notRpn>>

\* rpn_class_logits = self.conv_class(x)
RPNClassConv ==
    /\ rpn_pc = "class_conv"
    /\ rpn_class_logits' =
          ConvOutput("class", Conv2d(rpn_x, 512, 2 * anchors_per_location, 1, 1, 0))
    /\ rpn_pc' = "class_permute"
    /\ UNCHANGED <<anchors_per_location, anchor_stride, depth, rpn_input,
                   rpn_x, rpn_probs, rpn_bbox, rpn_result, notRpn>>

\* rpn_class_logits.permute(0, 2, 3, 1).contiguous()
RPNClassPermute ==
    /\ rpn_pc = "class_permute"
    /\ rpn_class_logits' = PermuteContiguous(rpn_class_logits, ClassPermutation)
    /\ rpn_pc' = "class_view"
    /\ UNCHANGED <<anchors_per_location, anchor_stride, depth, rpn_input,
                   rpn_x, rpn_probs, rpn_bbox, rpn_result, notRpn>>

\* rpn_class_logits.view(x.size()[0], -1, 2)
RPNClassView ==
    /\ rpn_pc = "class_view"
    /\ rpn_class_logits' = View(rpn_class_logits, rpn_x[1], 2)
    /\ rpn_pc' = IF rpn_class_logits' = NoTensor THEN "raised" ELSE "softmax"
    /\ UNCHANGED <<anchors_per_location, anchor_stride, depth, rpn_input,
                   rpn_x, rpn_probs, rpn_bbox, rpn_result, notRpn>>

\* rpn_probs = self.softmax(rpn_class_logits)
RPNSoftmax ==
    /\ rpn_pc = "softmax"
    /\ rpn_probs' = Softmax(rpn_class_logits, SoftmaxDim)
    /\ rpn_pc' = "bbox_conv"
    /\ UNCHANGED <<anchors_per_location, anchor_stride, depth, rpn_input,
                   rpn_x, rpn_class_logits, rpn_bbox, rpn_result, notRpn>>

\* rpn_bbox = self.conv_bbox(x)
RPNBboxConv ==
    /\ rpn_pc = "bbox_conv"
    /\ rpn_bbox' =
          ConvOutput("bbox", Conv2d(rpn_x, 512, 4 * anchors_per_location, 1, 1, 0))
    /\ rpn_pc' = "bbox_permute"
    /\ UNCHANGED <<anchors_per_location, anchor_stride, depth, rpn_input,
                   rpn_x, rpn_class_logits, rpn_probs, rpn_result, notRpn>>

\* rpn_bbox.permute(0, 2, 3, 1).contiguous()
RPNBboxPermute ==
    /\ rpn_pc = "bbox_permute"
    /\ rpn_bbox' = PermuteContiguous(rpn_bbox, BboxPermutation)
    /\ rpn_pc' = "bbox_view"
    /\ UNCHANGED <<anchors_per_location, anchor_stride, depth, rpn_input,
                   rpn_x, rpn_class_logits, rpn_probs, rpn_result, notRpn>>

\* rpn_bbox.view(x.size()[0], -1, 4); return [rpn_class_logits, rpn_probs, rpn_bbox]
RPNBboxViewReturn ==
    /\ rpn_pc = "bbox_view"
    /\ rpn_bbox' = View(rpn_bbox, rpn_x[1], 4)
    /\ IF rpn_bbox' = NoTensor
       THEN rpn_pc' = "raised" /\ UNCHANGED rpn_result
       ELSE rpn_pc' = "returned"
            /\ rpn_result' = <<rpn_class_logits, rpn_probs, rpn_bbox'>>
    /\ UNCHANGED <<anchors_per_location, anchor_stride, depth, rpn_input,
                   rpn_x, rpn_class_logits, rpn_probs, notRpn>>

RpnNext ==
    \/ RPNShared \/ RPNClassConv \/ RPNClassPermute \/ RPNClassView
    \/ RPNSoftmax \/ RPNBboxConv \/ RPNBboxPermute \/ RPNBboxViewReturn

SpecRpn == RpnInit /\ [][RpnNext]_vars

\* C3: RPN.forward returns class logits [batch, N, 2] and box deltas
\* [batch, N, 4] with N = H'*W'*A; at the flat anchor index
\* n = (h*W' + w)*A + a both hold the outputs of grid location (h, w) and
\* anchor a (class channels 2a, 2a+1 and box channels 4a..4a+3), and
\* rpn_probs normalises each anchor's two logits against each other.
C3_AnchorOrder ==
    rpn_pc = "returned" =>
        LET B == rpn_x[1]
            Hp == rpn_x[3]
            Wp == rpn_x[4]
            A == anchors_per_location
            N == Hp * Wp * A
        IN  /\ rpn_result[1].shape = <<B, N, 2>>
            /\ rpn_result[2].shape = <<B, N, 2>>
            /\ rpn_result[3].shape = <<B, N, 4>>
            /\ \A b \in 0..(B - 1), h \in 0..(Hp - 1), w \in 0..(Wp - 1),
                  a \in 0..(A - 1) :
                  LET n == (h * Wp + w) * A + a
                      logit(j) == <<"class", b, 2 * a + j, h, w>>
                  IN  /\ \A j \in 0..1 :
                            /\ At(rpn_result[1], <<b, n, j>>) = logit(j)
                            /\ At(rpn_result[2], <<b, n, j>>) =
                                  [of |-> logit(j), over |-> {logit(0), logit(1)}]
                      /\ \A k \in 0..3 :
                            At(rpn_result[3], <<b, n, k>>) =
                                <<"bbox", b, 4 * a + k, h, w>>

C3_Witness ==
    /\ rpn_pc = "returned" /\ anchors_per_location = 2
    /\ rpn_x[3] = 2 /\ rpn_x[4] = 3 /\ rpn_x[1] = 2

(***************************************************************************)
(* compute_loss.  The five loss functions are defined outside this file:   *)
(* a call to one is recorded with its arguments and returns some value.    *)
(***************************************************************************)
LossValues == 0..MaxLoss

\* sum(outputs): 0 + outputs[0] + outputs[1] + ...
RECURSIVE SumFrom(_, _)
SumFrom(acc, outputs) ==
    IF outputs = <<>> THEN acc
    ELSE SumFrom(acc + Head(outputs), Tail(outputs))

\* faulty variant: the mask term is left out of the total
sum_WithoutMask(outputs) == SumFrom(0, SubSeq(outputs, 1, Len(outputs) - 1))

sum(outputs) == SumFrom(0, outputs)

LossCall(fn, args, ret) == [fn |-> fn, args |-> args, ret |-> ret]

LossInit ==
    /\ target_rpn_match = "target_rpn_match"
    /\ target_rpn_bbox = "target_rpn_bbox"
    /\ inputs = <<"inputs[0]", "inputs[1]", "inputs[2]", "inputs[3]",
                  "inputs[4]", "inputs[5]", "inputs[6]", "inputs[7]">>
    /\ loss_calls = <<>>
    /\ rpn_class_loss = -1 /\ rpn_bbox_loss = -1 /\ mrcnn_class_loss = -1
    /\ mrcnn_bbox_loss = -1 /\ mrcnn_mask_loss = -1
    /\ loss_returned = <<>> /\ loss_pc = "rpn_class"
    /\ PadIdle /\ NetIdle /\ RpnIdle /\ MaskIdle /\ TrainIdle
    /\ TestIdle

\* rpn_class_loss = compute_rpn_class_loss(target_rpn_match, rpn_class_logits)
ComputeRpnClassLoss ==
    /\ loss_pc = "rpn_class"
    /\ \E v \in LossValues :
          /\ rpn_class_loss' = v
          /\ loss_calls' = Append(loss_calls,
                LossCall("compute_rpn_class_loss",
                         <<target_rpn_match, inputs[1]>>, v))
    /\ loss_pc' = "rpn_bbox"
    /\ UNCHANGED <<target_rpn_match, target_rpn_bbox, inputs, rpn_bbox_loss,
                   mrcnn_class_loss, mrcnn_bbox_loss, mrcnn_mask_loss,
                   loss_returned, notLoss>>

\* rpn_bbox_loss = compute_rpn_bbox_loss(target_rpn_bbox, target_rpn_match, rpn_pred_bbox)
ComputeRpnBboxLoss ==
    /\ loss_pc = "rpn_bbox"
    /\ \E v \in LossValues :
          /\ rpn_bbox_loss' = v
          /\ loss_calls' = Append(loss_calls,
                LossCall("compute_rpn_bbox_loss",
                         <<target_rpn_bbox, target_rpn_match, inputs[2]>>, v))
    /\ loss_pc' = "mrcnn_class"
    /\ UNCHANGED <<target_rpn_match, target_rpn_bbox, inputs, rpn_class_loss,
                   mrcnn_class_loss, mrcnn_bbox_loss, mrcnn_mask_loss,
                   loss_returned, notLoss>>

\* mrcnn_class_loss = compute_mrcnn_class_loss(target_class_ids, mrcnn_class_logits)
ComputeMrcnnClassLoss ==
    /\ loss_pc = "mrcnn_class"
    /\ \E v \in LossValues :
          /\ mrcnn_class_loss' = v
          /\ loss_calls' = Append(loss_calls,
                LossCall("compute_mrcnn_class_loss",
                         <<inputs[3], inputs[4]>>, v))
    /\ loss_pc' = "mrcnn_bbox"
    /\ UNCHANGED <<target_rpn_match, target_rpn_bbox, inputs, rpn_class_loss,
                   rpn_bbox_loss, mrcnn_bbox_loss, mrcnn_mask_loss,
                   loss_returned, notLoss>>

\* mrcnn_bbox_loss = compute_mrcnn_bbox_loss(target_deltas, target_class_ids, mrcnn_bbox)
ComputeMrcnnBboxLoss ==
    /\ loss_pc = "mrcnn_bbox"
    /\ \E v \in LossValues :
          /\ mrcnn_bbox_loss' = v
          /\ loss_calls' = Append(loss_calls,
                LossCall("compute_mrcnn_bbox_loss",
                         <<inputs[5], inputs[3], inputs[6]>>, v))
    /\ loss_pc' = "mrcnn_mask"
    /\ UNCHANGED <<target_rpn_match, target_rpn_bbox, inputs, rpn_class_loss,
                   rpn_bbox_loss, mrcnn_class_loss, mrcnn_mask_loss,
                   loss_returned, notLoss>>

\* mrcnn_mask_loss = compute_mrcnn_mask_loss(target_mask, target_class_ids, mrcnn_mask)
ComputeMrcnnMaskLoss ==
    /\ loss_pc = "mrcnn_mask"
    /\ \E v \in LossValues :
          /\ mrcnn_mask_loss' = v
          /\ loss_calls' = Append(loss_calls,
                LossCall("compute_mrcnn_mask_loss",
                         <<inputs[7], inputs[3], inputs[8]>>, v))
    /\ loss_pc' = "return"
    /\ UNCHANGED <<target_rpn_match, target_rpn_bbox, inputs, rpn_class_loss,
                   rpn_bbox_loss, mrcnn_class_loss, mrcnn_bbox_loss,
                   loss_returned, notLoss>>

\* outputs = [...]; return sum(outputs), outputs
ComputeLossReturn ==
    /\ loss_pc = "return"
    /\ LET outputs == <<rpn_class_loss, rpn_bbox_loss, mrcnn_class_loss,
                        mrcnn_bbox_loss, mrcnn_mask_loss>>
       IN  loss_returned' = <<sum(outputs), outputs>>
    /\ loss_pc' = "returned"
    /\ UNCHANGED <<target_rpn_match, target_rpn_bbox, inputs, loss_calls,
                   rpn_class_loss, rpn_bbox_loss, mrcnn_class_loss,
                   mrcnn_bbox_loss, mrcnn_mask_loss, notLoss>>

LossNext ==
    \/ ComputeRpnClassLoss \/ ComputeRpnBboxLoss \/ ComputeMrcnnClassLoss
    \/ ComputeMrcnnBboxLoss \/ ComputeMrcnnMaskLoss \/ ComputeLossReturn

SpecLoss == LossInit /\ [][LossNext]_vars

\* C4: compute_loss calls the five loss functions once each and returns
\* (total, terms) with terms = [rpn_class, rpn_bbox, mrcnn_class,
\* mrcnn_bbox, mrcnn_mask] and total their unweighted sum (0 exactly when
\* the terms sum to 0); the three head losses receive inputs[2] as
\* target_class_ids and the two RPN losses the same target_rpn_match.
C4_LossComposition ==
    loss_pc = "returned" =>
        LET total == loss_returned[1]
            terms == loss_returned[2]
        IN  /\ [i \in 1..Len(loss_calls) |-> loss_calls[i].fn] =
                  <<"compute_rpn_class_loss", "compute_rpn_bbox_loss",
                    "compute_mrcnn_class_loss", "compute_mrcnn_bbox_loss",
                    "compute_mrcnn_mask_loss">>
            /\ terms = [i \in 1..5 |-> loss_calls[i].ret]
            /\ total = terms[1] + terms[2] + terms[3] + terms[4] + terms[5]
            /\ (\A i \in 1..5 : terms[i] = 0) => total = 0
            /\ loss_calls[3].args[1] = "inputs[2]"
            /\ loss_calls[4].args[2] = "inputs[2]"
            /\ loss_calls[5].args[2] = "inputs[2]"
            /\ loss_calls[1].args[1] = "target_rpn_match"
            /\ loss_calls[2].args[2] = "target_rpn_match"

C4_Witness ==
    /\ loss_pc = "returned" /\ loss_returned[1] = 3
    /\ loss_returned[2] = <<0, 1, 0, 0, 2>>

(***************************************************************************)
(* Mask head.                                                              *)
(***************************************************************************)
\* nn.ConvTranspose2d(in_channels, out_channels, kernel_size, stride)
ConvTranspose2d(t, in_channels, out_channels, kernel_size, stride) ==
    IF t = Err THEN Err
    ELSE IF t[2] # in_channels THEN Err
    ELSE <<t[1], out_channels, (t[3] - 1) * stride + kernel_size,
                               (t[4] - 1) * stride + kernel_size>>

\* faulty variant: the class channels are normalised against each other
Sigmoid_AcrossClasses(t) == Softmax(t, 1)

\* nn.Sigmoid: element by element
Sigmoid(t) ==
    [shape |-> t.shape,
     flat |-> [o \in 1..Numel(t.shape) |->
                  [of |-> t.flat[o], over |-> {t.flat[o]}]]]

MaskInit ==
    /\ pool_size \in 1..MaxPool
    /\ num_classes \in 1..MaxClasses
    /\ mask_depth = 256
    /\ mask_x = Err
    /\ mask_trace = <<>>
    /\ mask_out = NoTensor
    /\ mask_pc = "roi_align"
    /\ PadIdle /\ NetIdle /\ RpnIdle /\ LossIdle /\ TrainIdle
    /\ TestIdle

\* x = pyramid_roi_align([rois] + x, self.pool_size, self.image_shape):
\* one pool_size x pool_size map of depth channels per RoI
MaskRoiAlign ==
    /\ mask_pc = "roi_align"
    /\ \E rois \in 1..MaxRois :
          mask_x' = <<rois, mask_depth, pool_size, pool_size>>
    /\ mask_trace' = <<mask_x'>>
    /\ mask_pc' = "conv1"
    /\ UNCHANGED <<pool_size, num_classes, mask_depth, mask_out, notMask>>

\* x = self.convN(self.padding(x)); bnN; relu
MaskConvStep(here, in_channels, next) ==
    /\ mask_pc = here
    /\ mask_x' = Conv2d(SamePad2d(mask_x, 3, 1), in_channels, 256, 3, 1, 0)
    /\ mask_trace' = Append(mask_trace, mask_x')
    /\ mask_pc' = IF mask_x' = Err THEN "raised" ELSE next
    /\ UNCHANGED <<pool_size, num_classes, mask_depth, mask_out, notMask>>

MaskConv1 == MaskConvStep("conv1", mask_depth, "conv2")
MaskConv2 == MaskConvStep("conv2", 256, "conv3")
MaskConv3 == MaskConvStep("conv3", 256, "conv4")
MaskConv4 == MaskConvStep("conv4", 256, "deconv")

\* x = self.deconv(x); relu
MaskDeconv ==
    /\ mask_pc = "deconv"
    /\ mask_x' = ConvTranspose2d(mask_x, 256, 256, 2, 2)
    /\ mask_trace' = Append(mask_trace, mask_x')
    /\ mask_pc' = IF mask_x' = Err THEN "raised" ELSE "conv5"
    /\ UNCHANGED <<pool_size, num_classes, mask_depth, mask_out, notMask>>

\* x = self.conv5(x)
MaskConv5 ==
    /\ mask_pc = "conv5"
    /\ mask_x' = Conv2d(mask_x, 256, num_classes, 1, 1, 0)
    /\ mask_trace' = Append(mask_trace, mask_x')
    /\ mask_out' = IF mask_x' = Err THEN NoTensor
                   ELSE ConvOutput("mask_logit", mask_x')
    /\ mask_pc' = IF mask_x' = Err THEN "raised" ELSE "sigmoid"
    /\ UNCHANGED <<pool_size, num_classes, mask_depth, notMask>>

\* x = self.sigmoid(x)
MaskSigmoid ==
    /\ mask_pc = "sigmoid"
    /\ mask_out' = Sigmoid(mask_out)
    /\ mask_pc' = "done"
    /\ UNCHANGED <<pool_size, num_classes, mask_depth, mask_x, mask_trace,
                   notMask>>

MaskNext ==
    \/ MaskRoiAlign \/ MaskConv1 \/ MaskConv2 \/ MaskConv3 \/ MaskConv4
    \/ MaskDeconv \/ MaskConv5 \/ MaskSigmoid

SpecMask == MaskInit /\ [][MaskNext]_vars

\* C9: for RoI features pooled to pool_size x pool_size, Mask.forward
\* computes for each RoI num_classes mask channels of size 2*pool_size x
\* 2*pool_size: the four padded 3x3 convolutions keep the spatial size,
\* the transposed convolution doubles it, the 1x1 convolution keeps it, and
\* the sigmoid makes every mask value a function of its own logit only, so
\* no class channel depends on another.
C9_MaskShape ==
    /\ mask_pc # "raised"
    /\ \A i \in 2..Len(mask_trace) :
          IF i = 6
          THEN /\ mask_trace[i][3] = 2 * mask_trace[i - 1][3]
               /\ mask_trace[i][4] = 2 * mask_trace[i - 1][4]
          ELSE /\ mask_trace[i][3] = mask_trace[i - 1][3]
               /\ mask_trace[i][4] = mask_trace[i - 1][4]
    /\ mask_pc = "done" =>
          /\ mask_out.shape =
                <<mask_trace[1][1], num_classes, 2 * pool_size, 2 * pool_size>>
          /\ \A o \in 1..Len(mask_out.flat) :
                /\ mask_out.flat[o].of =
                      <<"mask_logit">> \o Unravel(mask_out.shape, o - 1)
                /\ \A e \in mask_out.flat[o].over :
                      e[3] = mask_out.flat[o].of[3]

C9_Witness ==
    /\ mask_pc = "done" /\ num_classes = 3 /\ pool_size = 2
    /\ mask_out.shape = <<2, 3, 4, 4>>
    /\ Len(mask_trace) = 7

(***************************************************************************)
(* The training loops train_epoch and train_epoch_new.  A gradient is the  *)
(* set of batches whose backward pass it has accumulated; the parameters   *)
(* are the sequence of gradients the optimizer has applied.  loss / steps  *)
(* is a true division: loss_sum is a fraction <<numerator, denominator>>   *)
(* in lowest terms.  print_log changes nothing the model keeps.            *)
(***************************************************************************)
RECURSIVE GCD(_, _)
GCD(a, b) == IF b = 0 THEN a ELSE GCD(b, a % b)

\* the fraction n / d (d > 0) in lowest terms
Frac(n, d) == LET g == GCD(n, d) IN <<n \div g, d \div g>>

FracAdd(a, b) == Frac(a[1] * b[2] + b[1] * a[2], a[2] * b[2])

\* faulty variant: optimizer.step() is called before loss.backward()
train_epoch_new_body_StepFirst ==
    <<"next", "forward", "compute_loss", "zero_grad", "step", "backward",
      "clip", "stats", "save">>

\* the statements of one iteration of each loop, in program order
train_epoch_body ==
    <<"count", "forward", "compute_loss", "zero_grad", "backward", "clip",
      "step", "stats", "break">>

train_epoch_new_body ==
    <<"next", "forward", "compute_loss", "zero_grad", "backward", "clip",
      "step", "stats", "save">>

Body(loop) ==
    IF loop = "train_epoch" THEN train_epoch_body ELSE train_epoch_new_body

\* the statement after statement p of the body; "loop" after the last
After(loop, p) ==
    LET body == Body(loop)
        i == CHOOSE k \in 1..Len(body) : body[k] = p
    IN  IF i = Len(body) THEN "loop" ELSE body[i + 1]

At_(loop, p) == tr_loop = loop /\ tr_pc = p

Event(name) == [batch |-> consumed, ev |-> name, nparams |-> Len(params)]

\* faulty variant: the loop breaks one step late
BreakNow_Late(st, n) == st = n

\* if step == steps-1: break
BreakNow(st, n) == st = n - 1

TrainInit ==
    /\ tr_loop \in {"train_epoch", "train_epoch_new"}
    /\ gen_len \in 0..MaxLen
    /\ BATCH_SIZE \in 1..MaxBatchSize
    /\ IF tr_loop = "train_epoch"
       THEN /\ steps \in 0..MaxSteps
            /\ SAVE_TIME_WITHIN_EPOCH = 0 /\ start_iter = 0
            /\ tr_pc = "setup"
       ELSE /\ steps = 0
            /\ SAVE_TIME_WITHIN_EPOCH \in 1..MaxSaveTime
            /\ start_iter \in 0..MaxStartIter
            /\ tr_pc = "setup"
    /\ batch_count = 0 /\ loss_sum = <<0, 1>> /\ step = 0 /\ iter_ind = 0
    /\ iter_per_epoch = 0 /\ save_iter_base = 0 /\ loss = -1
    /\ consumed = 0 /\ grad = {} /\ params = <<>> /\ checkpoints = <<>>
    /\ tr_returned = <<>> /\ events = <<>> /\ losses = <<>>
    /\ PadIdle /\ NetIdle /\ RpnIdle /\ LossIdle /\ MaskIdle
    /\ TestIdle

\* ---- statements the two loops share ----
\* outputs = model(...)
ForwardStep(loop) ==
    /\ At_(loop, "forward")
    /\ events' = Append(events, Event("forward"))
    /\ tr_pc' = After(loop, "forward")
    /\ UNCHANGED <<trainArgs, trainLocals, consumed, grad, params,
                   checkpoints, tr_returned, losses, notTrain>>

\* loss, detailed_losses = compute_loss(...)
ComputeLossStep(loop) ==
    /\ At_(loop, "compute_loss")
    /\ \E v \in LossValues : loss' = v
    /\ events' = Append(events, Event("compute_loss"))
    /\ tr_pc' = After(loop, "compute_loss")
    /\ UNCHANGED <<trainArgs, batch_count, loss_sum, step, iter_ind,
                   iter_per_epoch, save_iter_base, consumed, grad, params,
                   checkpoints, tr_returned, losses, notTrain>>

\* loss.backward(): accumulates this batch's gradient into .grad
BackwardStep(loop) ==
    /\ At_(loop, "backward")
    /\ grad' = grad \cup {consumed}
    /\ events' = Append(events, Event("backward"))
    /\ tr_pc' = After(loop, "backward")
    /\ UNCHANGED <<trainArgs, trainLocals, consumed, params, checkpoints,
                   tr_returned, losses, notTrain>>

\* torch.nn.utils.clip_grad_norm(model.parameters(), 5.0): rescales .grad
ClipStep(loop) ==
    /\ At_(loop, "clip")
    /\ events' = Append(events, Event("clip"))
    /\ tr_pc' = After(loop, "clip")
    /\ UNCHANGED <<trainArgs, trainLocals, consumed, grad, params,
                   checkpoints, tr_returned, losses, notTrain>>

\* ---- train_epoch ----
\* batch_count, loss_sum, step = 0, 0, 0
TE_Setup ==
    /\ At_("train_epoch", "setup")
    /\ batch_count' = 0 /\ loss_sum' = <<0, 1>> /\ step' = 0
    /\ tr_pc' = "loop"
    /\ UNCHANGED <<trainArgs, iter_ind, iter_per_epoch, save_iter_base, loss,
                   consumed, grad, params, checkpoints, tr_returned, events,
                   losses, notTrain>>

\* for inputs in datagenerator:
TE_Loop ==
    /\ At_("train_epoch", "loop")
    /\ IF consumed < gen_len
       THEN consumed' = consumed + 1 /\ tr_pc' = train_epoch_body[1]
       ELSE UNCHANGED consumed /\ tr_pc' = "return"
    /\ UNCHANGED <<trainArgs, trainLocals, grad, params, checkpoints,
                   tr_returned, events, losses, notTrain>>

\* batch_count += 1
TE_Count ==
    /\ At_("train_epoch", "count")
    /\ batch_count' = batch_count + 1
    /\ tr_pc' = After("train_epoch", "count")
    /\ UNCHANGED <<trainArgs, loss_sum, step, iter_ind, iter_per_epoch,
                   save_iter_base, loss, consumed, grad, params, checkpoints,
                   tr_returned, events, losses, notTrain>>

TE_Forward == ForwardStep("train_epoch")

TE_ComputeLoss == ComputeLossStep("train_epoch")

\* if (batch_count % model.config.BATCH_SIZE) == 0: optimizer.zero_grad()
TE_ZeroGrad ==
    /\ At_("train_epoch", "zero_grad")
    /\ IF batch_count % BATCH_SIZE = 0
       THEN grad' = {} /\ events' = Append(events, Event("zero_grad"))
       ELSE UNCHANGED <<grad, events>>
    /\ tr_pc' = After("train_epoch", "zero_grad")
    /\ UNCHANGED <<trainArgs, trainLocals, consumed, params, checkpoints,
                   tr_returned, losses, notTrain>>

TE_Backward == BackwardStep("train_epoch")

TE_Clip == ClipStep("train_epoch")

\* if (batch_count % model.config.BATCH_SIZE) == 0:
\*     optimizer.step(); batch_count = 0
TE_Step ==
    /\ At_("train_epoch", "step")
    /\ IF batch_count % BATCH_SIZE = 0
       THEN /\ params' = Append(params, grad)
            /\ batch_count' = 0
            /\ events' = Append(events,
                  [batch |-> consumed, ev |-> "step", nparams |-> Len(params')])
       ELSE UNCHANGED <<params, batch_count, events>>
    /\ tr_pc' = After("train_epoch", "step")
    /\ UNCHANGED <<trainArgs, loss_sum, step, iter_ind, iter_per_epoch,
                   save_iter_base, loss, consumed, grad, checkpoints,
                   tr_returned, losses, notTrain>>

\* loss_sum += loss.data.cpu()[0]/steps
TE_Stats ==
    /\ At_("train_epoch", "stats")
    /\ IF steps = 0
       THEN tr_pc' = "raised" /\ UNCHANGED <<loss_sum, losses>>
       ELSE /\ loss_sum' = FracAdd(loss_sum, Frac(loss, steps))
            /\ losses' = Append(losses, loss)
            /\ tr_pc' = After("train_epoch", "stats")
    /\ UNCHANGED <<trainArgs, batch_count, step, iter_ind, iter_per_epoch,
                   save_iter_base, loss, consumed, grad, params, checkpoints,
                   tr_returned, events, notTrain>>

\* if step == steps-1: break
\* step += 1
TE_Break ==
    /\ At_("train_epoch", "break")
    /\ IF BreakNow(step, steps)
       THEN tr_pc' = "return" /\ UNCHANGED step
       ELSE tr_pc' = After("train_epoch", "break") /\ step' = step + 1
    /\ UNCHANGED <<trainArgs, batch_count, loss_sum, iter_ind, iter_per_epoch,
                   save_iter_base, loss, consumed, grad, params, checkpoints,
                   tr_returned, events, losses, notTrain>>

\* return loss_sum
TE_Return ==
    /\ At_("train_epoch", "return")
    /\ tr_returned' = <<loss_sum>>
    /\ tr_pc' = "returned"
    /\ UNCHANGED <<trainArgs, trainLocals, consumed, grad, params,
                   checkpoints, events, losses, notTrain>>

\* ---- train_epoch_new ----
\* loss_sum = 0; iter_per_epoch = math.ceil(len(data_loader)/config.BATCH_SIZE)
\* save_iter_base = math.floor(iter_per_epoch / config.SAVE_TIME_WITHIN_EPOCH)
TEN_Setup ==
    /\ At_("train_epoch_new", "setup")
    /\ loss_sum' = <<0, 1>>
    /\ iter_per_epoch' = CeilDiv(gen_len, BATCH_SIZE)
    /\ save_iter_base' = iter_per_epoch' \div SAVE_TIME_WITHIN_EPOCH
    /\ iter_ind' = start_iter - 1
    /\ tr_pc' = "loop"
    /\ UNCHANGED <<trainArgs, batch_count, step, loss, consumed, grad, params,
                   checkpoints, tr_returned, events, losses, notTrain>>

\* for iter_ind in range(args['start_iter'], iter_per_epoch+1):
TEN_Loop ==
    /\ At_("train_epoch_new", "loop")
    /\ IF iter_ind + 1 <= iter_per_epoch
       THEN iter_ind' = iter_ind + 1 /\ tr_pc' = train_epoch_new_body[1]
       ELSE UNCHANGED iter_ind /\ tr_pc' = "return"
    /\ UNCHANGED <<trainArgs, batch_count, loss_sum, step, iter_per_epoch,
                   save_iter_base, loss, consumed, grad, params, checkpoints,
                   tr_returned, events, losses, notTrain>>

\* inputs = next(data_iterator)
TEN_Next ==
    /\ At_("train_epoch_new", "next")
    /\ IF consumed < gen_len
       THEN consumed' = consumed + 1
            /\ tr_pc' = After("train_epoch_new", "next")
       ELSE UNCHANGED consumed /\ tr_pc' = "raised"
    /\ UNCHANGED <<trainArgs, trainLocals, grad, params, checkpoints,
                   tr_returned, events, losses, notTrain>>

TEN_Forward == ForwardStep("train_epoch_new")

TEN_ComputeLoss == ComputeLossStep("train_epoch_new")

\* optimizer.zero_grad()
TEN_ZeroGrad ==
    /\ At_("train_epoch_new", "zero_grad")
    /\ grad' = {}
    /\ events' = Append(events, Event("zero_grad"))
    /\ tr_pc' = After("train_epoch_new", "zero_grad")
    /\ UNCHANGED <<trainArgs, trainLocals, consumed, params, checkpoints,
                   tr_returned, losses, notTrain>>

TEN_Backward == BackwardStep("train_epoch_new")

TEN_Clip == ClipStep("train_epoch_new")

\* optimizer.step()
TEN_Step ==
    /\ At_("train_epoch_new", "step")
    /\ params' = Append(params, grad)
    /\ events' = Append(events,
          [batch |-> consumed, ev |-> "step", nparams |-> Len(params')])
    /\ tr_pc' = After("train_epoch_new", "step")
    /\ UNCHANGED <<trainArgs, trainLocals, consumed, grad, checkpoints,
                   tr_returned, losses, notTrain>>

\* loss_sum += loss.data.cpu()[0]/iter_per_epoch
TEN_Stats ==
    /\ At_("train_epoch_new", "stats")
    /\ IF iter_per_epoch = 0
       THEN tr_pc' = "raised" /\ UNCHANGED <<loss_sum, losses>>
       ELSE /\ loss_sum' = FracAdd(loss_sum, Frac(loss, iter_per_epoch))
            /\ losses' = Append(losses, loss)
            /\ tr_pc' = After("train_epoch_new", "stats")
    /\ UNCHANGED <<trainArgs, batch_count, step, iter_ind, iter_per_epoch,
                   save_iter_base, loss, consumed, grad, params, checkpoints,
                   tr_returned, events, notTrain>>

\* if iter_ind % save_iter_base == 0: torch.save({'state_dict': ..}, ..)
TEN_Save ==
    /\ At_("train_epoch_new", "save")
    /\ IF save_iter_base = 0
       THEN tr_pc' = "raised" /\ UNCHANGED <<checkpoints, events>>
       ELSE /\ IF iter_ind % save_iter_base = 0
               THEN /\ checkpoints' = Append(checkpoints,
                          [iter |-> iter_ind, state_dict |-> params])
                    /\ events' = Append(events, Event("save"))
               ELSE UNCHANGED <<checkpoints, events>>
            /\ tr_pc' = After("train_epoch_new", "save")
    /\ UNCHANGED <<trainArgs, trainLocals, consumed, grad, params,
                   tr_returned, losses, notTrain>>

\* return loss_sum
TEN_Return ==
    /\ At_("train_epoch_new", "return")
    /\ tr_returned' = <<loss_sum>>
    /\ tr_pc' = "returned"
    /\ UNCHANGED <<trainArgs, trainLocals, consumed, grad, params,
                   checkpoints, events, losses, notTrain>>

TrainNext ==
    \/ TE_Setup \/ TE_Loop \/ TE_Count \/ TE_Forward \/ TE_ComputeLoss
    \/ TE_ZeroGrad \/ TE_Backward \/ TE_Clip \/ TE_Step \/ TE_Stats
    \/ TE_Break \/ TE_Return
    \/ TEN_Setup \/ TEN_Loop \/ TEN_Next \/ TEN_Forward \/ TEN_ComputeLoss
    \/ TEN_ZeroGrad \/ TEN_Backward \/ TEN_Clip \/ TEN_Step \/ TEN_Stats
    \/ TEN_Save \/ TEN_Return

SpecTrain == TrainInit /\ [][TrainNext]_vars

(***************************************************************************)
(* Claims about the training loops, checked under SpecTrain.               *)
(***************************************************************************)
\* the names of the events of batch b, in the order they happened
EventNames(b) ==
    LET es == SelectSeq(events, LAMBDA e : e.batch = b)
    IN  [i \in 1..Len(es) |-> es[i].ev]

IsPrefix(a, b) == Len(a) <= Len(b) /\ a = SubSeq(b, 1, Len(a))

Without(seq, name) == SelectSeq(seq, LAMBDA e : e # name)

Min(a, b) == IF a <= b THEN a ELSE b

\* the iteration on batch b has run all its statements up to the step
PastStep(b) ==
    b < consumed \/ tr_pc \in {"stats", "save", "loop", "return", "returned", "raised"}

\* C5: in both loops the parameters change with optimizer.step() only; the
\* events of an iteration come in the order forward, compute_loss,
\* backward, clipping, (optional) step, so no step falls between the
\* forward and the backward pass of a batch; every iteration of
\* train_epoch_new makes exactly one step, right after zero_grad, backward
\* and clipping; a checkpoint is saved after the step of its iteration and
\* holds the parameters as that step left them.
C5_StepOrder ==
    /\ \A i \in 1..Len(events) :
          events[i].nparams =
              (IF i = 1 THEN 0 ELSE events[i - 1].nparams)
                  + (IF events[i].ev = "step" THEN 1 ELSE 0)
    /\ Len(params) = IF events = <<>> THEN 0 ELSE events[Len(events)].nparams
    /\ \A b \in 1..consumed :
          /\ tr_loop = "train_epoch" =>
                IsPrefix(Without(EventNames(b), "zero_grad"),
                         <<"forward", "compute_loss", "backward", "clip", "step">>)
          /\ tr_loop = "train_epoch_new" =>
                /\ IsPrefix(EventNames(b),
                            <<"forward", "compute_loss", "zero_grad",
                              "backward", "clip", "step", "save">>)
                /\ PastStep(b) =>
                      /\ Len(EventNames(b)) >= 6
                      /\ Len(SelectSeq(EventNames(b), LAMBDA e : e = "step")) = 1
    /\ Len(checkpoints) =
          Len(SelectSeq(events, LAMBDA e : e.ev = "save"))
    /\ \A k \in 1..Len(checkpoints) :
          LET saves == SelectSeq(events, LAMBDA e : e.ev = "save")
          IN  /\ IsPrefix(checkpoints[k].state_dict, params)
              /\ Len(checkpoints[k].state_dict) = saves[k].nparams
              /\ "step" \in {EventNames(saves[k].batch)[i] :
                                i \in 1..Len(EventNames(saves[k].batch))}

C5_Witness ==
    /\ tr_loop = "train_epoch_new" /\ tr_pc = "returned"
    /\ Len(checkpoints) = 2 /\ Len(params) = 2
    /\ EventNames(2) = <<"forward", "compute_loss", "zero_grad", "backward",
                         "clip", "step", "save">>

\* C10: for steps >= 1 and any generator length L, train_epoch processes
\* exactly min(steps, L) batches and returns, never taking a batch beyond
\* the steps-th from the generator, and returns the sum over the processed
\* batches of loss / steps.
C10_BreakAfterSteps ==
    (tr_loop = "train_epoch" /\ steps >= 1) =>
        /\ consumed <= steps
        /\ tr_pc # "raised"
        /\ tr_pc = "returned" =>
              /\ consumed = Min(steps, gen_len)
              /\ Len(losses) = Min(steps, gen_len)
              /\ \A b \in 1..Min(steps, gen_len) :
                    IsPrefix(<<"forward", "compute_loss">>, EventNames(b))
                        /\ "backward" \in {EventNames(b)[i] :
                                              i \in 1..Len(EventNames(b))}
              /\ tr_returned = <<Frac(SumFrom(0, losses), steps)>>

C10_Witness ==
    /\ tr_loop = "train_epoch" /\ tr_pc = "returned"
    /\ steps = 2 /\ gen_len = 3 /\ consumed = 2
    /\ losses = <<1, 2>> /\ tr_returned = <<<<3, 2>>>>

(***************************************************************************)
(* The residual stages against FPN's lateral convolutions (SpecNet).       *)
(***************************************************************************)
\* planes and stride of the make_layer call that builds stage i (2..5)
StagePlanes == <<0, 64, 128, 256, 512>>
StageStride == <<0, 1, 2, 2, 2>>

\* self.inplanes when the call for stage i is made
InplanesBefore == <<0, 64, 256, 512, 1024>>

\* input channels of FPN's P2..P5 lateral convolutions, by stage
LateralChannels == <<0, 256, 512, 1024, 2048>>

\* position of __init__ after the make_layer call of stage i
AfterCall == <<"", "init_C3", "init_C4", "init_C5", "built">>

Built(i) == stages[i].kind = "sequential"

\* C11: in every stage that ResNet.__init__ has built, the first block has
\* a 1x1 projection shortcut with the stage's stride exactly when
\* stride # 1 or inplanes # 4*planes, every later block takes and gives
\* 4*planes channels with stride 1 and no shortcut, self.inplanes is
\* 4*planes after each call, no residual addition of C2..C5 fails in a
\* forward pass, and the stages give 256, 512, 1024 and 2048 channels,
\* the input channels of FPN's lateral convolutions.
C11_ResidualShapes ==
    /\ \A i \in 2..5 : Built(i) =>
          LET bs == stages[i].blocks
              planes == StagePlanes[i]
              stride == StageStride[i]
              before == InplanesBefore[i]
          IN  /\ Len(bs) = layers[i - 1]
              /\ bs[1].inplanes = before /\ bs[1].planes = planes
              /\ bs[1].stride = stride
              /\ (bs[1].downsample.kind = "conv")
                    <=> (stride # 1 \/ before # 4 * planes)
              /\ bs[1].downsample.kind = "conv" =>
                    /\ bs[1].downsample.inplanes = before
                    /\ bs[1].downsample.planes = 4 * planes
                    /\ bs[1].downsample.stride = stride
              /\ \A k \in 2..Len(bs) :
                    /\ bs[k].inplanes = 4 * planes /\ bs[k].planes = planes
                    /\ bs[k].stride = 1 /\ bs[k].downsample.kind = "none"
              /\ pc = AfterCall[i] => inplanes = 4 * planes
              /\ 4 * planes = LateralChannels[i]
    /\ \A i \in 2..5 :
          (pc = "raised" /\ raised_at = StageNames[i]) => ~Built(i)
    /\ \A i \in 2..5 :
          (stages_run = i /\ pc # "raised") => x[2] = LateralChannels[i]
    /\ (call = "fpn" /\ stages_run >= 2) => c2_out[2] = LateralChannels[2]
    /\ (call = "fpn" /\ stages_run >= 3) => c3_out[2] = LateralChannels[3]
    /\ (call = "fpn" /\ stages_run >= 4) => c4_out[2] = LateralChannels[4]
    /\ ~(pc = "raised" /\ raised_at = "P5")

C11_Witness ==
    /\ call = "fpn" /\ pc = "returned" /\ stage5 /\ stages_run = 5
    /\ C2.blocks[1].downsample.kind = "conv" /\ C2.blocks[1].stride = 1
    /\ C5.blocks[1].downsample.stride = 2 /\ Len(C4.blocks) = 23
    /\ inplanes = 2048 /\ x[2] = 2048

(***************************************************************************)
(* test_model: the evaluation loop.  Python sequences are 0-based; the     *)
(* element at Python index k is element k + 1 here.                        *)
(***************************************************************************)
\* seq[a:b] for 0 <= a, 0 <= b
Slice(seq, a, b) ==
    LET hi == IF b <= Len(seq) THEN b ELSE Len(seq)
    IN  IF a >= hi THEN <<>> ELSE SubSeq(seq, a + 1, hi)

\* the truth value of a list or None
Truthy(v) == v # NoIds /\ v # <<>>

\* lists of at most n ids of images of a dataset of d images
IdLists(d, n) == UNION {[1..k -> 0..(d - 1)] : k \in 0..n}

\* the number of detections _unmold_detections leaves for an image
\* (final_rois None or empty: 0)
Detections == {0, 2}

TestInit ==
    /\ \E d \in 0..MaxImages :
          /\ dataset = [image_ids |-> [k \in 1..d |-> k - 1],
                        image_info |-> [k \in 1..d |-> [id |-> 100 + 7 * k]]]
          /\ arg_image_ids \in {NoIds} \cup IdLists(d, MaxIdsLen)
    /\ config \in [BATCH_SIZE : 1..MaxBatchSize, GPU_COUNT : 1..MaxGpu]
    /\ limit \in -1..MaxLimit
    /\ image_ids = arg_image_ids
    /\ num_test_im = 0 /\ coco_image_ids = <<>> /\ results = <<>>
    /\ total_iter = 0 /\ cnt = 0 /\ test_iter_ind = 0
    /\ curr_image_ids = <<>> /\ images = <<>> /\ image_i = 0
    /\ network_calls = <<>> /\ test_pc = "pick" /\ test_raised = "none"
    /\ PadIdle /\ NetIdle /\ RpnIdle /\ LossIdle /\ MaskIdle /\ TrainIdle

\* image_ids = image_ids or dataset.image_ids
TM_Pick ==
    /\ test_pc = "pick"
    /\ image_ids' = IF Truthy(image_ids) THEN image_ids ELSE dataset.image_ids
    /\ test_pc' = "limit"
    /\ UNCHANGED <<testArgs, num_test_im, coco_image_ids, results, total_iter,
                   cnt, test_iter_ind, curr_image_ids, images, image_i,
                   network_calls, test_raised, notTest>>

\* if limit > 0: image_ids = image_ids[:limit]
TM_Limit ==
    /\ test_pc = "limit"
    /\ image_ids' = IF limit > 0 THEN Slice(image_ids, 0, limit) ELSE image_ids
    /\ test_pc' = "assert"
    /\ UNCHANGED <<testArgs, num_test_im, coco_image_ids, results, total_iter,
                   cnt, test_iter_ind, curr_image_ids, images, image_i,
                   network_calls, test_raised, notTest>>

\* num_test_im = len(image_ids)
\* assert (num_test_im % BATCH_SIZE) % GPU_COUNT == 0
TM_Assert ==
    /\ test_pc = "assert"
    /\ num_test_im' = Len(image_ids)
    /\ IF (num_test_im' % config.BATCH_SIZE) % config.GPU_COUNT = 0
       THEN test_pc' = "coco_ids" /\ UNCHANGED test_raised
       ELSE test_pc' = "raised" /\ test_raised' = "assert"
    /\ UNCHANGED <<testArgs, image_ids, coco_image_ids, results, total_iter,
                   cnt, test_iter_ind, curr_image_ids, images, image_i,
                   network_calls, notTest>>

\* coco_image_ids = [dataset.image_info[ind]["id"] for ind in image_ids]
\* results = []; total_iter = math.ceil(num_test_im / BATCH_SIZE); cnt = 0
TM_CocoIds ==
    /\ test_pc = "coco_ids"
    /\ coco_image_ids' = [k \in 1..Len(image_ids) |->
                             dataset.image_info[image_ids[k] + 1].id]
    /\ results' = <<>>
    /\ total_iter' = CeilDiv(num_test_im, config.BATCH_SIZE)
    /\ cnt' = 0
    /\ test_iter_ind' = -1
    /\ test_pc' = "loop"
    /\ UNCHANGED <<testArgs, image_ids, num_test_im, curr_image_ids, images,
                   image_i, network_calls, test_raised, notTest>>

\* for iter_ind in range(total_iter):
TM_Loop ==
    /\ test_pc = "loop"
    /\ IF test_iter_ind + 1 < total_iter
       THEN test_iter_ind' = test_iter_ind + 1 /\ test_pc' = "slice"
       ELSE UNCHANGED test_iter_ind /\ test_pc' = "average"
    /\ UNCHANGED <<testArgs, image_ids, num_test_im, coco_image_ids, results,
                   total_iter, cnt, curr_image_ids, images, image_i,
                   network_calls, test_raised, notTest>>

\* curr_image_ids = image_ids[iter_ind*BATCH_SIZE :
\*                     min(iter_ind*BATCH_SIZE + BATCH_SIZE, num_test_im)]
TM_Slice ==
    /\ test_pc = "slice"
    /\ LET lo == test_iter_ind * config.BATCH_SIZE
           hi == lo + config.BATCH_SIZE
       IN  curr_image_ids' =
               Slice(image_ids, lo, IF hi <= num_test_im THEN hi ELSE num_test_im)
    /\ test_pc' = "detect"
    /\ UNCHANGED <<testArgs, image_ids, num_test_im, coco_image_ids, results,
                   total_iter, cnt, test_iter_ind, images, image_i,
                   network_calls, test_raised, notTest>>

\* molded_images, image_metas, windows, images = _mold_inputs(...)
\* detections, mrcnn_mask = input_model([molded_images, image_metas], ...)
\* (_mold_inputs loads one image per id, in order; np.stack of an empty
\* list raises)
TM_Detect ==
    /\ test_pc = "detect"
    /\ IF curr_image_ids = <<>>
       THEN /\ test_pc' = "raised" /\ test_raised' = "mold"
            /\ UNCHANGED <<images, image_i, network_calls>>
       ELSE /\ images' = curr_image_ids
            /\ network_calls' = Append(network_calls, curr_image_ids)
            /\ image_i' = 0
            /\ test_pc' = "image" /\ UNCHANGED test_raised
    /\ UNCHANGED <<testArgs, image_ids, num_test_im, coco_image_ids, results,
                   total_iter, cnt, test_iter_ind, curr_image_ids, notTest>>

\* for i, image in enumerate(images):
\*     curr_coco_id = coco_image_ids[curr_image_ids[i]]
\*     ... for det_id in range(final_rois.shape[0]): results.append(...)
TM_Image ==
    /\ test_pc = "image" /\ image_i < Len(images)
    /\ LET ind == curr_image_ids[image_i + 1]
       IN  IF ind >= Len(coco_image_ids)
           THEN /\ test_pc' = "raised" /\ test_raised' = "lookup"
                /\ UNCHANGED <<results, image_i>>
           ELSE /\ \E n \in Detections :
                      results' = results \o
                          [k \in 1..n |->
                              [image_id |-> coco_image_ids[ind + 1],
                               image |-> images[image_i + 1]]]
                /\ image_i' = image_i + 1
                /\ UNCHANGED <<test_pc, test_raised>>
    /\ UNCHANGED <<testArgs, image_ids, num_test_im, coco_image_ids,
                   total_iter, cnt, test_iter_ind, curr_image_ids, images,
                   network_calls, notTest>>

\* cnt += len(curr_image_ids)
TM_Count ==
    /\ test_pc = "image" /\ image_i = Len(images)
    /\ cnt' = cnt + Len(curr_image_ids)
    /\ test_pc' = "loop"
    /\ UNCHANGED <<testArgs, image_ids, num_test_im, coco_image_ids, results,
                   total_iter, test_iter_ind, curr_image_ids, images, image_i,
                   network_calls, test_raised, notTest>>

\* after the loop: t_prediction / len(image_ids), then the results are saved
TM_Average ==
    /\ test_pc = "average"
    /\ IF Len(image_ids) = 0
       THEN test_pc' = "raised" /\ test_raised' = "average"
       ELSE test_pc' = "saved" /\ UNCHANGED test_raised
    /\ UNCHANGED <<testArgs, image_ids, num_test_im, coco_image_ids, results,
                   total_iter, cnt, test_iter_ind, curr_image_ids, images,
                   image_i, network_calls, notTest>>

TestNext ==
    \/ TM_Pick \/ TM_Limit \/ TM_Assert \/ TM_CocoIds \/ TM_Loop \/ TM_Slice
    \/ TM_Detect \/ TM_Image \/ TM_Count \/ TM_Average

SpecTest == TestInit /\ [][TestNext]_vars

(***************************************************************************)
(* Claims about test_model, checked under SpecTest.                        *)
(***************************************************************************)
\* the image ids the call selects: the list passed (dataset.image_ids when
\* none or an empty one is passed), cut to its first `limit` when limit > 0
Selected ==
    LET base == IF Truthy(arg_image_ids) THEN arg_image_ids
                ELSE dataset.image_ids
    IN  IF limit > 0 THEN Slice(base, 0, limit) ELSE base

AssertionHolds ==
    (Len(Selected) % config.BATCH_SIZE) % config.GPU_COUNT = 0

RECURSIVE Flatten(_)
Flatten(seqs) ==
    IF seqs = <<>> THEN <<>> ELSE Head(seqs) \o Flatten(Tail(seqs))

LoopExited ==
    test_pc \in {"average", "saved"}
        \/ (test_pc = "raised" /\ test_raised = "average")

\* C12: when the assertion holds, the loop runs to its exit in
\* ceil(num_test_im / BATCH_SIZE) iterations, the k-th batch handed to the
\* network being the k-th run of BATCH_SIZE consecutive selected ids
\* (non-empty, the last one possibly shorter), so that the batches
\* concatenated are the selected ids and cnt = num_test_im at loop exit;
\* when the assertion fails nothing is handed to the network.
C12_BatchesPartition ==
    /\ ~AssertionHolds =>
          /\ network_calls = <<>> /\ results = <<>>
          /\ test_pc \in {"pick", "limit", "assert", "raised"}
          /\ test_pc = "raised" => test_raised = "assert"
    /\ AssertionHolds =>
          /\ \A k \in 1..Len(network_calls) :
                /\ network_calls[k] # <<>>
                /\ Len(network_calls[k]) <= config.BATCH_SIZE
                /\ network_calls[k] =
                      Slice(Selected, (k - 1) * config.BATCH_SIZE,
                            k * config.BATCH_SIZE)
          /\ ~(test_pc = "raised" /\ test_raised \in {"assert", "mold", "lookup"})
          /\ LoopExited =>
                /\ Len(network_calls) =
                      CeilDiv(Len(Selected), config.BATCH_SIZE)
                /\ Flatten(network_calls) = Selected
                /\ num_test_im = Len(Selected) /\ cnt = num_test_im

\* C13: every result appended carries as image_id the COCO id of the image
\* whose detections it holds, dataset.image_info[id]["id"], and the lookup
\* in coco_image_ids never raises IndexError.
C13_CocoImageId ==
    /\ \A k \in 1..Len(results) :
          results[k].image_id = dataset.image_info[results[k].image + 1].id
    /\ ~(test_pc = "raised" /\ test_raised = "lookup")

(***************************************************************************)
(* Gradient accumulation in train_epoch, checked under SpecTrain.          *)
(***************************************************************************)
\* the batch at which the k-th optimizer.step() was made (0 for k = 0)
StepBatch(k) ==
    IF k = 0 THEN 0
    ELSE SelectSeq(events, LAMBDA e : e.ev = "step")[k].batch

\* C14: in train_epoch the gradient applied by each optimizer.step() holds
\* the backward contribution of every batch processed since the previous
\* step (or since the start of the epoch): zero_grad never discards a
\* backward result that no step has applied.
C14_GradientAccumulation ==
    tr_loop = "train_epoch" =>
        \A k \in 1..Len(params) :
            params[k] = {b \in 1..consumed :
                            StepBatch(k - 1) < b /\ b <= StepBatch(k)}

====
